---- MODULE Spec2Model ----
(***************************************************************************)
(* colourado_iter: the HSV palette generator (src/src/lib.rs) and the      *)
(* Color model (src/src/color.rs).                                         *)
(*                                                                         *)
(* Numbers.  The program computes in f32.  Here an f32 is a fixed-point    *)
(* integer n standing for n / One, and every operation rounds its exact    *)
(* result to the nearest multiple of 1 / One, as f32 rounds to the nearest *)
(* representable number.  NaN (0.0 / 0.0) is a value of its own.           *)
(***************************************************************************)
EXTENDS Integers, Naturals, Sequences, FiniteSets, TLC

(***************************************************************************)
(* The state.  Palettes are numbered; one specification constructs one     *)
(* palette, another two from the same arguments.                           *)
(***************************************************************************)
VARIABLES
    gen,        \* gen[i]: the HsvPalette held by palette i
    owner,      \* owner[i]: "ColorPalette" until into_inner(), then "HsvPalette"
    args,       \* args[i]: the arguments of ColorPalette::new and the hue it drew
    hsv_ret,    \* hsv_ret[i]: what the last HsvPalette::next returned
    color_ret,  \* color_ret[i]: what the last ColorPalette::next returned
    peek,       \* peek[i]: what get() returned, if called since the last next()
    step,       \* step[i]: the locals of the last step (div, f), the hue and the peek before it
    calls,      \* calls[i]: the number of next() calls made
    emitted,    \* emitted[i]: the number of values next() has yielded (what take(n) collects)
    budget,     \* the number of next() calls the caller makes at most
    pc,         \* the colour under conversion: "idle", "input", "rgb"
    cin,        \* the (hue, saturation, value) given to Color::hsv_to_rgb
    color,      \* the Color it returned
    hsv2,       \* what Color::to_hsv returned for it
    hex         \* what Color::to_hex returned for it

vars == <<gen, owner, args, hsv_ret, color_ret, peek, step, calls, emitted, budget,
          pc, cin, color, hsv2, hex>>

genVars == <<gen, owner, args, hsv_ret, color_ret, peek, step, calls, emitted, budget>>

colorVars == <<pc, cin, color, hsv2, hex>>

\* No call made yet
NoCall == [tag |-> "NoCall"]

\* No tuple or string returned yet
NoValue == << >>

\* 1.0 as a fixed-point number: 13 fractional bits.
One == 8192

\* The f32 NaN, produced by 0.0 / 0.0.
NaN == -(2^30)

Abs(a) == IF a < 0 THEN -a ELSE a

Sign(a) == IF a < 0 THEN -1 ELSE 1

\* n / d for naturals n, d, rounded to the nearest integer, halves away from
\* zero (f32::round, and the rounding of a fixed-point result).
RoundDiv(n, d) == (n \div d) + (IF 2 * (n % d) >= d THEN 1 ELSE 0)

\* The literal n/d (0.32 is Lit(32, 100)) as a fixed-point number.
Lit(n, d) == RoundDiv(n * One, d)

\* a * b: with the larger factor split into its whole and fractional parts
\* the exact product is rounded once.
MulSplit(p, q) == (p \div One) * q + RoundDiv((p % One) * q, One)

MulNat(p, q) == IF p >= q THEN MulSplit(p, q) ELSE MulSplit(q, p)

Mul(a, b) == Sign(a) * Sign(b) * MulNat(Abs(a), Abs(b))

\* a / b for b # 0
Div(a, b) == Sign(a) * Sign(b) * RoundDiv(Abs(a) * One, Abs(b))

\* a % b of Rust on floats (fmod): the remainder takes the sign of a.
Rem(a, b) == IF a >= 0 THEN a % b ELSE -((-a) % b)

\* a / k for a whole literal k (hue / 60.0).  In f32 every hue below 360 has
\* hue / 60.0 below 6: the largest f32 below 360 divided by 60 rounds to the
\* largest f32 below 6.  The fixed-point quotient keeps that by rounding toward
\* zero.
DivInt(a, k) == Sign(a) * (Abs(a) \div k)

\* a * k for a whole literal k (iteration * 43.0): exact
MulInt(a, k) == a * k

\* n as f32 (iteration as f32)
ToF32(n) == n * One

(***************************************************************************)
(* f32::cos, f32::sin, f32::tan.  The argument is reduced to [0, 2 pi)     *)
(* with 2 pi = 51471.8540364 / One, then to the first octant, where the    *)
(* Taylor polynomials are evaluated in Horner form.  The results agree     *)
(* with f32's to about 1 / One; a tangent near a pole to a few percent.    *)
(***************************************************************************)
\* pi/2 = 12867.96 / One
HalfPi == 12868

Pi == 2 * HalfPi

WrapTwoPi(r) == IF r >= 2 * Pi THEN r - 2 * Pi ELSE r

\* x less k turns
LessTurns(x, k) ==
    WrapTwoPi(x - k * 51471 - RoundDiv(k * 8540 + (k * 364) \div 1000, 10000))

ReduceTwoPi(x) == LessTurns(x, x \div 51472)

\* 1 - x2/2! + x2^2/4! - x2^3/6! + x2^4/8!, x2 the square of the angle
CosPoly(x2) ==
    One - DivInt(Mul(x2, One - DivInt(Mul(x2, One - DivInt(Mul(x2,
        One - DivInt(x2, 56)), 30)), 12)), 2)

\* 1 - x2/3! + x2^2/5! - x2^3/7! + x2^4/9!
SinPoly(x2) ==
    One - DivInt(Mul(x2, One - DivInt(Mul(x2, One - DivInt(Mul(x2,
        One - DivInt(x2, 72)), 42)), 20)), 6)

\* cos x for 0 <= x <= pi/4
CosKernel(x) == CosPoly(Mul(x, x))

\* sin x for 0 <= x <= pi/4
SinKernel(x) == Mul(x, SinPoly(Mul(x, x)))

\* cos x and sin x for 0 <= x <= pi/2
CosQ(x) == IF 2 * x <= HalfPi THEN CosKernel(x) ELSE SinKernel(HalfPi - x)

SinQ(x) == IF 2 * x <= HalfPi THEN SinKernel(x) ELSE CosKernel(HalfPi - x)

\* cos r and sin r for 0 <= r < 2 pi
CosTurn(r) ==
    IF r <= HalfPi THEN CosQ(r)
    ELSE IF r <= Pi THEN -CosQ(Pi - r)
    ELSE IF r <= Pi + HalfPi THEN -CosQ(r - Pi)
    ELSE CosQ(2 * Pi - r)

SinTurn(r) ==
    IF r <= HalfPi THEN SinQ(r)
    ELSE IF r <= Pi THEN SinQ(Pi - r)
    ELSE IF r <= Pi + HalfPi THEN -SinQ(r - Pi)
    ELSE -SinQ(2 * Pi - r)

Cos(x) == CosTurn(ReduceTwoPi(Abs(x)))

Sin(x) == Sign(x) * SinTurn(ReduceTwoPi(Abs(x)))

\* tan x = sin x / cos x.  No f32 is an odd multiple of pi/2, so f32::tan is
\* finite; a cosine that rounds to 0 is taken as the smallest fixed-point number.
Quotient(s, c) == Div(s, IF c = 0 THEN 1 ELSE c)

Tan(x) == Quotient(Sin(x), Cos(x))

(***************************************************************************)
(* src/src/color.rs                                                        *)
(***************************************************************************)

\* Color { red, green, blue }
Color(red, green, blue) == [red |-> red, green |-> green, blue |-> blue]

to_tuple(c) == <<c.red, c.green, c.blue>>

\* let color2 = match hue2 { ... }
color2(hue2, chroma, tmp) ==
    CASE 0 <= hue2 /\ hue2 < One -> <<chroma, tmp, 0>>
      [] One <= hue2 /\ hue2 < 2 * One -> <<tmp, chroma, 0>>
      [] 2 * One <= hue2 /\ hue2 < 3 * One -> <<0, chroma, tmp>>
      [] 3 * One <= hue2 /\ hue2 < 4 * One -> <<0, tmp, chroma>>
      [] 4 * One <= hue2 /\ hue2 < 5 * One -> <<tmp, 0, chroma>>
      [] 5 * One <= hue2 /\ hue2 < 6 * One -> <<chroma, 0, tmp>>
      [] OTHER -> <<0, 0, 0>>

\* let tmp = chroma * (1.0 - ((hue2 % 2.0) - 1.0).abs())
tmp(hue2, chroma) == Mul(chroma, One - Abs(Rem(hue2, 2 * One) - One))

\* red, green, blue = color2.0 + m, color2.1 + m, color2.2 + m
offset(c2, m) == Color(c2[1] + m, c2[2] + m, c2[3] + m)

\* Mutant: m = value, the chroma not taken off
from_chroma_full_value(hue2, chroma, value) ==
    offset(color2(hue2, chroma, tmp(hue2, chroma)), value)

\* the conversion from hue2 and chroma on; m = value - chroma
from_chroma(hue2, chroma, value) ==
    offset(color2(hue2, chroma, tmp(hue2, chroma)), value - chroma)

hsv_to_rgb(hue, saturation, value) ==
    from_chroma(DivInt(hue, 60), Mul(value, saturation), value)

\* cmax and cmin after the if tree on g (both start as r), then after the one on b
minmax_g(r, g) == IF g > r THEN <<g, r>> ELSE IF g < r THEN <<r, g>> ELSE <<r, r>>

minmax_b(mm, b) ==
    IF b > mm[1] THEN <<b, mm[2]>> ELSE IF b < mm[2] THEN <<mm[1], b>> ELSE mm

\* delta = 0 only when r = g = b, and then cmax == r: 60.0 * ((0.0 / 0.0) % 6.0)
hue_of(r, g, b, cmax, delta) ==
    IF cmax = r
    THEN (IF delta = 0 THEN NaN ELSE MulInt(Rem(Div(g - b, delta), 6 * One), 60))
    ELSE IF cmax = g THEN MulInt(Div(b - r, delta) + 2 * One, 60)
    ELSE MulInt(Div(r - g, delta) + 4 * One, 60)

saturation_of(cmax, delta) == IF cmax = 0 THEN 0 ELSE Div(delta, cmax)

hsv_of(r, g, b, cmax, cmin) ==
    <<hue_of(r, g, b, cmax, cmax - cmin), saturation_of(cmax, cmax - cmin), cmax>>

hsv_from(r, g, b, mm) == hsv_of(r, g, b, mm[1], mm[2])

to_hsv(c) == hsv_from(c.red, c.green, c.blue, minmax_b(minmax_g(c.red, c.green), c.blue))

\* Mutant: the cast without .round()
ToU32_truncating(c) == IF c <= 0 THEN 0 ELSE MulInt(c, 255) \div One

\* (x * 255.0).round() as u32: the cast saturates at 0
ToU32(c) == IF c <= 0 THEN 0 ELSE RoundDiv(MulInt(c, 255), One)

HexDigits == <<"0", "1", "2", "3", "4", "5", "6", "7", "8", "9", "A", "B", "C", "D", "E", "F">>

\* {:X}: the digits of n, most significant first
RECURSIVE UpperHex(_)
UpperHex(n) ==
    IF n < 16 THEN <<HexDigits[n + 1]>>
    ELSE Append(UpperHex(n \div 16), HexDigits[(n % 16) + 1])

\* {:02X}: at least two digits, padded with 0
Pad02X(n) == IF n < 16 THEN <<"0">> \o UpperHex(n) ELSE UpperHex(n)

\* The String as the sequence of its characters
to_hex(c) ==
    <<"#">> \o Pad02X(ToU32(c.red)) \o Pad02X(ToU32(c.green)) \o Pad02X(ToU32(c.blue))

(***************************************************************************)
(* src/src/lib.rs                                                          *)
(***************************************************************************)

PaletteType == {"Random", "Pastel", "Dark"}

\* Option<T>
Some(v) == [tag |-> "Some", val |-> v]

None == [tag |-> "None"]

ColorPalette_new(palette_type, adjacent_colors, rng_hue) ==
    [base_divergence |-> IF adjacent_colors THEN ToF32(25) ELSE ToF32(80),
     palette_type |-> palette_type,
     hue |-> rng_hue,
     iteration |-> 0]

\* Mutant: no floor
div_unfloored(self) == self.base_divergence

\* let mut div = self.base_divergence; if div < 15.0 { div = 15.0; }
div(self) ==
    IF self.base_divergence < ToF32(15) THEN ToF32(15) ELSE self.base_divergence

\* Mutant: the tangent of the Random palette in the Dark one
f_dark_tan(self) == Abs(Tan(MulInt(ToF32(self.iteration), 43)))

\* The perturbation f of each palette
f_dark(self) == Abs(Cos(MulInt(ToF32(self.iteration), 43)))

f_pastel(self) == Abs(Cos(MulInt(ToF32(self.iteration), 25)))

f_random(self) == Abs(Tan(MulInt(ToF32(self.iteration), 55)))

\* if x < lo { x = lo; }
AtLeast(x, lo) == IF x < lo THEN lo ELSE x

\* if x < lo { x = lo; } else if x > hi { x = hi; }
Between(x, lo, hi) == IF x < lo THEN lo ELSE IF x > hi THEN hi ELSE x

palette_dark(self) ==
    LET iteration == ToF32(self.iteration)
        f == f_dark(self)
        hue == Rem(Abs(self.hue + div(self) + f), ToF32(360))
        saturation == Lit(32, 100) + Abs(DivInt(Sin(Mul(iteration, Lit(75, 100))), 2))
        value == Lit(1, 10) + Abs(DivInt(Cos(iteration), 6))
    IN  <<hue, saturation, value>>

palette_pastel(self) ==
    LET iteration == ToF32(self.iteration)
        f == f_pastel(self)
        hue == Rem(Abs(self.hue + div(self) + f), ToF32(360))
        saturation == Abs(DivInt(Cos(Mul(iteration, Lit(35, 100))), 5))
        value == Lit(5, 10) + Abs(DivInt(Cos(iteration), 2))
    IN  <<hue, saturation, value>>

palette_random(self) ==
    LET iteration == ToF32(self.iteration)
        f == f_random(self)
        hue == Rem(Abs(self.hue + div(self) + f), ToF32(360))
        saturation == AtLeast(Abs(Sin(Mul(iteration, Lit(35, 100)))), Lit(4, 10))
        value == Between(Abs(Cos(Mul(Mul(Lit(633, 100), iteration), Lit(5, 10)))),
                         Lit(2, 10), Lit(85, 100))
    IN  <<hue, saturation, value>>

\* Mutant: the iteration read from a counter all palettes share
SharedCounter == IF DOMAIN calls = {1, 2} THEN calls[1] + calls[2] ELSE calls[1]

get_shared_counter(self) ==
    CASE self.palette_type = "Random" ->
             palette_random([self EXCEPT !.iteration = SharedCounter])
      [] self.palette_type = "Pastel" ->
             palette_pastel([self EXCEPT !.iteration = SharedCounter])
      [] self.palette_type = "Dark" ->
             palette_dark([self EXCEPT !.iteration = SharedCounter])

get(self) ==
    CASE self.palette_type = "Random" -> palette_random(self)
      [] self.palette_type = "Pastel" -> palette_pastel(self)
      [] self.palette_type = "Dark" -> palette_dark(self)

\* Mutant: the palette ends after three colours
advance_finite(self, t) ==
    IF self.iteration >= 3
    THEN [self |-> self, ret |-> None]
    ELSE [self |-> [self EXCEPT !.hue = t[1], !.iteration = @ + 1], ret |-> Some(t)]

\* Mutant: self.hue = hue left out
advance_keeping_hue(self, t) ==
    [self |-> [self EXCEPT !.iteration = @ + 1], ret |-> Some(t)]

\* Mutant: the iteration counted twice
advance_twice(self, t) ==
    [self |-> [self EXCEPT !.hue = t[1], !.iteration = @ + 2], ret |-> Some(t)]

\* Iterator for HsvPalette: the palette after the call and the value returned
\* self.hue = hue; self.iteration += 1; Some((hue, saturation, value))
advance(self, t) ==
    [self |-> [self EXCEPT !.hue = t[1], !.iteration = @ + 1],
     ret |-> Some(t)]

HsvPalette_next(self) == advance(self, get(self))

\* if let Some((hue, saturation, value)) = ... { Some(Color::hsv_to_rgb(..)) } else { None }
map_color(r) ==
    [self |-> r.self,
     inner |-> r.ret,
     ret |-> IF r.ret.tag = "Some"
             THEN Some(hsv_to_rgb(r.ret.val[1], r.ret.val[2], r.ret.val[3]))
             ELSE None]

\* Iterator for ColorPalette
ColorPalette_next(self) == map_color(HsvPalette_next(self))

(***************************************************************************)
(* Bounds                                                                  *)
(***************************************************************************)
\* next() calls per palette
MaxIter == 12

\* next() calls in the long run
MaxIterLong == 4260

\* next() calls of each of two palettes
MaxIterPair == 4

\* starting hues drawn by the rng
NumHues == 4

\* base_divergence values of an arbitrary HsvPalette, in steps of 5.0
NumDivergences == 4

\* hues, and saturation and value levels, given to Color::hsv_to_rgb
HueGrid == 24

LevelGrid == 4

\* rng.gen_range(0.0..360.0): from 0.0 to the largest number below 360.0
StartHues == {(k * (ToF32(360) - 1)) \div (NumHues - 1) : k \in 0 .. NumHues - 1}

Divergences == {ToF32(5 * k) : k \in 0 .. NumDivergences} \cup {ToF32(25), ToF32(80)}

GridHues == {(k * ToF32(360)) \div HueGrid : k \in 0 .. HueGrid - 1}

Levels == {(k * One) \div LevelGrid : k \in 0 .. LevelGrid}

(***************************************************************************)
(* Initial states                                                          *)
(***************************************************************************)
ColorIdle ==
    /\ pc = "idle"
    /\ cin = <<0, 0, 0>>
    /\ color = NoCall
    /\ hsv2 = NoValue
    /\ hex = NoValue

\* Palettes ids, all constructed by ColorPalette::new from the same arguments
Constructed(ids, palette_type, adjacent_colors, rng_hue, n) ==
    /\ gen = [i \in ids |-> ColorPalette_new(palette_type, adjacent_colors, rng_hue)]
    /\ args = [i \in ids |-> [palette_type |-> palette_type,
                              adjacent_colors |-> adjacent_colors,
                              hue |-> rng_hue]]
    /\ owner = [i \in ids |-> "ColorPalette"]
    /\ hsv_ret = [i \in ids |-> NoCall]
    /\ color_ret = [i \in ids |-> NoCall]
    /\ peek = [i \in ids |-> NoCall]
    /\ step = [i \in ids |-> NoCall]
    /\ calls = [i \in ids |-> 0]
    /\ emitted = [i \in ids |-> 0]
    /\ budget = n

Init ==
    /\ \E t \in PaletteType, a \in BOOLEAN, h \in StartHues :
           Constructed({1}, t, a, h, MaxIter)
    /\ ColorIdle

\* One palette, a long run from either end of the rng's range
InitLong ==
    /\ \E t \in PaletteType, a \in BOOLEAN, h \in {0, ToF32(360) - 1} :
           Constructed({1}, t, a, h, MaxIterLong)
    /\ ColorIdle

\* Two palettes from the same mode, adjacency flag and starting hue
InitPair ==
    /\ \E t \in PaletteType, a \in BOOLEAN, h \in StartHues :
           Constructed({1, 2}, t, a, h, MaxIterPair)
    /\ ColorIdle

AnyPalette(palette_type, base_divergence, hue) ==
    /\ gen = [i \in {1} |-> [base_divergence |-> base_divergence,
                             palette_type |-> palette_type,
                             hue |-> hue,
                             iteration |-> 0]]
    /\ args = [i \in {1} |-> [palette_type |-> palette_type, hue |-> hue]]
    /\ owner = [i \in {1} |-> "ColorPalette"]
    /\ hsv_ret = [i \in {1} |-> NoCall]
    /\ color_ret = [i \in {1} |-> NoCall]
    /\ peek = [i \in {1} |-> NoCall]
    /\ step = [i \in {1} |-> NoCall]
    /\ calls = [i \in {1} |-> 0]
    /\ emitted = [i \in {1} |-> 0]
    /\ budget = MaxIter

\* ColorPalette(HsvPalette { .. }) with any base_divergence: the palette
\* functions are functions of the struct, whatever built it.
InitAnyDivergence ==
    /\ \E t \in PaletteType, d \in Divergences, h \in StartHues :
           AnyPalette(t, d, h)
    /\ ColorIdle

(***************************************************************************)
(* The operations on a palette                                             *)
(***************************************************************************)
\* The perturbation the palette's mode adds in the next step
f(self) ==
    CASE self.palette_type = "Random" -> f_random(self)
      [] self.palette_type = "Pastel" -> f_pastel(self)
      [] self.palette_type = "Dark" -> f_dark(self)

Locals(i) ==
    [div |-> div(gen[i]), f |-> f(gen[i]), hue |-> gen[i].hue, peek |-> peek[i]]

Count(ret) == IF ret.tag = "Some" THEN 1 ELSE 0

\* ColorPalette::next
ColorNext(i) ==
    /\ owner[i] = "ColorPalette"
    /\ calls[i] < budget
    /\ \E r \in {ColorPalette_next(gen[i])} :
           /\ gen' = [gen EXCEPT ![i] = r.self]
           /\ hsv_ret' = [hsv_ret EXCEPT ![i] = r.inner]
           /\ color_ret' = [color_ret EXCEPT ![i] = r.ret]
           /\ emitted' = [emitted EXCEPT ![i] = @ + Count(r.ret)]
    /\ step' = [step EXCEPT ![i] = Locals(i)]
    /\ peek' = [peek EXCEPT ![i] = NoCall]
    /\ calls' = [calls EXCEPT ![i] = @ + 1]
    /\ UNCHANGED <<owner, args, budget, colorVars>>

\* HsvPalette::next, on the palette into_inner() gave
HsvNext(i) ==
    /\ owner[i] = "HsvPalette"
    /\ calls[i] < budget
    /\ \E r \in {HsvPalette_next(gen[i])} :
           /\ gen' = [gen EXCEPT ![i] = r.self]
           /\ hsv_ret' = [hsv_ret EXCEPT ![i] = r.ret]
           /\ emitted' = [emitted EXCEPT ![i] = @ + Count(r.ret)]
    /\ step' = [step EXCEPT ![i] = Locals(i)]
    /\ peek' = [peek EXCEPT ![i] = NoCall]
    /\ calls' = [calls EXCEPT ![i] = @ + 1]
    /\ UNCHANGED <<owner, args, color_ret, budget, colorVars>>

\* ColorPalette::into_inner: the ColorPalette is consumed
IntoInner(i) ==
    /\ owner[i] = "ColorPalette"
    /\ owner' = [owner EXCEPT ![i] = "HsvPalette"]
    /\ color_ret' = [color_ret EXCEPT ![i] = NoCall]
    /\ UNCHANGED <<gen, args, hsv_ret, peek, step, calls, emitted, budget, colorVars>>

\* Mutant: a get() that steps the palette, as next() does
Get_stepping(i) ==
    /\ peek' = [peek EXCEPT ![i] = Some(get(gen[i]))]
    /\ gen' = [gen EXCEPT ![i] = HsvPalette_next(gen[i]).self]
    /\ UNCHANGED <<owner, args, hsv_ret, color_ret, step, calls, emitted, budget,
                   colorVars>>

\* HsvPalette::get, on the HsvPalette or through ColorPalette::get_inner
Get(i) ==
    /\ peek' = [peek EXCEPT ![i] = Some(get(gen[i]))]
    /\ UNCHANGED <<gen, owner, args, hsv_ret, color_ret, step, calls, emitted, budget,
                   colorVars>>

Next ==
    \/ \E i \in DOMAIN gen : ColorNext(i)
    \/ \E i \in DOMAIN gen : HsvNext(i)
    \/ \E i \in DOMAIN gen : IntoInner(i)
    \/ \E i \in DOMAIN gen : Get(i)

Spec == Init /\ [][Next]_vars

SpecLong == InitLong /\ [][Next]_vars

SpecPair == InitPair /\ [][Next]_vars

SpecAnyDivergence == InitAnyDivergence /\ [][Next]_vars

(***************************************************************************)
(* The conversions of a colour                                             *)
(***************************************************************************)
InitColor ==
    /\ gen = << >>
    /\ owner = << >>
    /\ args = << >>
    /\ hsv_ret = << >>
    /\ color_ret = << >>
    /\ peek = << >>
    /\ step = << >>
    /\ calls = << >>
    /\ emitted = << >>
    /\ budget = 0
    /\ pc = "input"
    /\ cin \in GridHues \X Levels \X Levels
    /\ color = NoCall
    /\ hsv2 = NoValue
    /\ hex = NoValue

\* Color::hsv_to_rgb(hue, saturation, value)
HsvToRgb ==
    /\ pc = "input"
    /\ color' = hsv_to_rgb(cin[1], cin[2], cin[3])
    /\ pc' = "rgb"
    /\ UNCHANGED <<cin, hsv2, hex, genVars>>

\* color.to_hsv()
ToHsv ==
    /\ pc = "rgb"
    /\ hsv2' = to_hsv(color)
    /\ UNCHANGED <<pc, cin, color, hex, genVars>>

\* color.to_hex()
ToHex ==
    /\ pc = "rgb"
    /\ hex' = to_hex(color)
    /\ UNCHANGED <<pc, cin, color, hsv2, genVars>>

NextColor == HsvToRgb \/ ToHsv \/ ToHex

SpecColor == InitColor /\ [][NextColor]_vars

(***************************************************************************)
(* Properties                                                              *)
(***************************************************************************)
Palettes == DOMAIN gen

InUnit(c) == 0 <= c /\ c <= One

\* C1: every Color that ColorPalette::next emits, in every mode, with either
\* adjacency setting, from every starting hue and after any number of calls,
\* has red, green and blue within [0.0, 1.0].
C1_ChannelsInUnitRange ==
    \A i \in Palettes :
        color_ret[i] # NoCall =>
            /\ color_ret[i].tag = "Some"
            /\ InUnit(color_ret[i].val.red)
            /\ InUnit(color_ret[i].val.green)
            /\ InUnit(color_ret[i].val.blue)

\* A colour emitted with a channel at 1.0 exactly, and one after several calls.
C1_Witness ==
    \E i \in Palettes :
        /\ color_ret[i] # NoCall
        /\ \/ calls[i] = 1 /\ One \in {color_ret[i].val.red, color_ret[i].val.green,
                                        color_ret[i].val.blue}
           \/ calls[i] = budget /\ color_ret[i].val.red > 0

\* 0.00003, the tolerance of the round trip
Epsilon == Lit(3, 100000)

Near(a, b) == a # NaN /\ Abs(a - b) <= Epsilon

\* C2: for hue in [0, 360), saturation in (0, 1] and value in (0, 1] (no
\* achromatic colour), hsv_to_rgb(hue, saturation, value).to_hsv() gives the
\* hue, the saturation and the value back, each within 0.00003.
C2_RoundTrip ==
    (hsv2 # NoValue /\ cin[2] > 0 /\ cin[3] > 0) =>
        /\ Near(hsv2[1], cin[1])
        /\ Near(hsv2[2], cin[2])
        /\ Near(hsv2[3], cin[3])

\* The same below 300 degrees, where to_hsv's (g - b) / delta is not negative:
\* there the round trip is exact on the inputs drawn.
RoundTripBelow300 ==
    (hsv2 # NoValue /\ cin[2] > 0 /\ cin[3] > 0 /\ cin[1] < ToF32(300)) =>
        hsv2 = cin

\* From 300 degrees on, to_hsv returns the hue less a full turn.
RoundTripFrom300 ==
    (hsv2 # NoValue /\ cin[2] > 0 /\ cin[3] > 0 /\ cin[1] >= ToF32(300)) =>
        hsv2 = <<cin[1] - ToF32(360), cin[2], cin[3]>>

\* C3: next() never returns None, on the HsvPalette or on the ColorPalette:
\* every call made has yielded a value, so taking N colours from a fresh
\* palette yields N colours.
C3_NeverExhausted ==
    \A i \in Palettes :
        /\ emitted[i] = calls[i]
        /\ hsv_ret[i] # NoCall => hsv_ret[i].tag = "Some"
        /\ color_ret[i] # NoCall => color_ret[i].tag = "Some"

\* All the colours the caller asked of a ColorPalette have been taken.
C3_Witness ==
    \E i \in Palettes :
        /\ owner[i] = "ColorPalette"
        /\ calls[i] = budget
        /\ emitted[i] = budget
        /\ color_ret[i].tag = "Some"

\* C4: two palettes constructed with the same mode, adjacency flag and
\* starting hue have, after the same number of next() calls, returned the
\* same value and hold the same (hue, iteration) state, whatever the order of
\* the calls and the get() calls in between.
C4_Deterministic ==
    \A i, j \in Palettes :
        calls[i] = calls[j] =>
            /\ gen[i] = gen[j]
            /\ hsv_ret[i] = hsv_ret[j]
            /\ (owner[i] = "ColorPalette" /\ owner[j] = "ColorPalette")
                   => color_ret[i] = color_ret[j]

\* Both palettes have made three calls, one as a ColorPalette, the other
\* after into_inner(), one with a get() pending.
C4_Witness ==
    /\ Palettes = {1, 2}
    /\ calls[1] = 3
    /\ calls[2] = 3
    /\ owner[1] # owner[2]
    /\ peek[1] # NoCall
    /\ peek[2] = NoCall

\* hex[k] is an uppercase hexadecimal digit
UpperHexDigit(ch) ==
    ch \in {"0", "1", "2", "3", "4", "5", "6", "7", "8", "9", "A", "B", "C", "D", "E", "F"}

\* The number two hexadecimal digits write
HexValue(hi, lo) ==
    16 * (CHOOSE n \in 0 .. 15 : HexDigits[n + 1] = hi)
    + (CHOOSE n \in 0 .. 15 : HexDigits[n + 1] = lo)

\* channel * 255 rounded to the nearest integer
Scaled(c) == (2 * 255 * c + One) \div (2 * One)

\* C5: to_hex returns '#' and six uppercase hexadecimal digits, two per
\* channel in the order red, green, blue, each pair the channel scaled to
\* [0, 255] and rounded to the nearest integer; the conversions of (0, 0, 1),
\* (0, 0, 0) and (0, 1, 1) give "#FFFFFF", "#000000" and "#FF0000".
C5_HexFormat ==
    /\ hex # NoValue =>
           /\ Len(hex) = 7
           /\ hex[1] = "#"
           /\ \A k \in 2 .. 7 : UpperHexDigit(hex[k])
           /\ HexValue(hex[2], hex[3]) = Scaled(color.red)
           /\ HexValue(hex[4], hex[5]) = Scaled(color.green)
           /\ HexValue(hex[6], hex[7]) = Scaled(color.blue)
    /\ to_hex(hsv_to_rgb(0, 0, One)) = <<"#", "F", "F", "F", "F", "F", "F">>
    /\ to_hex(hsv_to_rgb(0, 0, 0)) = <<"#", "0", "0", "0", "0", "0", "0">>
    /\ to_hex(hsv_to_rgb(0, One, One)) = <<"#", "F", "F", "0", "0", "0", "0">>

\* A colour whose channels are rounded up (127.5 and 63.75) and padded (0).
C5_Witness == hex = <<"#", "8", "0", "4", "0", "0", "0">>

Max15(d) == IF d >= ToF32(15) THEN d ELSE ToF32(15)

\* C6: for any base_divergence, those below 15.0 included, and in every mode,
\* the divergence a step adds to the hue is max(base_divergence, 15.0), never
\* below 15.0.
C6_DivergenceFloor ==
    \A i \in Palettes :
        calls[i] > 0 =>
            /\ step[i].div = Max15(gen[i].base_divergence)
            /\ step[i].div >= ToF32(15)
            /\ gen[i].hue = Rem(step[i].hue + Max15(gen[i].base_divergence) + step[i].f,
                                ToF32(360))

\* A palette whose base_divergence is below 15.0 has made a step.
C6_Witness ==
    \E i \in Palettes :
        /\ gen[i].base_divergence < ToF32(15)
        /\ calls[i] > 0
        /\ step[i].div = ToF32(15)

\* iteration is the number of next() calls made; the other fields are as constructed
IterationCounts ==
    \A i \in Palettes :
        /\ gen[i].iteration = calls[i]
        /\ gen[i].iteration = emitted[i]
        /\ gen[i].palette_type = args[i].palette_type
        /\ gen[i].base_divergence
               = (IF args[i].adjacent_colors THEN ToF32(25) ELSE ToF32(80))

\* The same of each step
StepFrame ==
    [][\A i \in Palettes :
           /\ calls'[i] # calls[i] => gen'[i].iteration = gen[i].iteration + 1
           /\ calls'[i] = calls[i] => gen'[i].iteration = gen[i].iteration
           /\ gen'[i].base_divergence = gen[i].base_divergence
           /\ gen'[i].palette_type = gen[i].palette_type]_vars

\* C7: iteration is 0 at construction and every next() adds exactly 1 to it,
\* so it is the number of colours generated; base_divergence and palette_type
\* never change, base_divergence staying 25.0 if adjacent and 80.0 otherwise.
C7_IterationFrame == []IterationCounts /\ StepFrame

\* An adjacent palette has generated several colours.
C7_Witness ==
    \E i \in Palettes :
        /\ args[i].adjacent_colors
        /\ calls[i] >= 3
        /\ gen[i].iteration = calls[i]

\* C8: after every next() the hue kept in the palette is the hue of the
\* triple just returned, and the hue kept is in [0, 360) in every state.
C8_HueFeedback ==
    \A i \in Palettes :
        /\ 0 <= gen[i].hue
        /\ gen[i].hue < ToF32(360)
        /\ calls[i] > 0 =>
               /\ hsv_ret[i].tag = "Some"
               /\ hsv_ret[i].val[1] = gen[i].hue

\* A step whose hue passed 360 and wrapped.
C8_Witness ==
    \E i \in Palettes :
        /\ calls[i] > 0
        /\ hsv_ret[i].val[1] = gen[i].hue
        /\ gen[i].hue < step[i].hue

\* The hue a step stores is (previous hue + div + f) mod 360, with f >= 0
StepHue(i) ==
    /\ gen[i].hue = Rem(step[i].hue + step[i].div + step[i].f, ToF32(360))
    /\ step[i].f >= 0

RECURSIVE Replay(_, _)
Replay(self, n) == IF n = 0 THEN self ELSE Replay(HsvPalette_next(self).self, n - 1)

\* C10: get() changes nothing of the palette and returns the triple the next
\* next() returns, so get() calls between the next() calls leave the sequence
\* as it is without them.
C10_GetIsPeek ==
    \A i \in Palettes :
        /\ gen[i] = Replay(ColorPalette_new(args[i].palette_type,
                                            args[i].adjacent_colors,
                                            args[i].hue), calls[i])
        /\ peek[i] # NoCall => peek[i] = HsvPalette_next(gen[i]).ret
        /\ (calls[i] > 0 /\ step[i].peek # NoCall) => step[i].peek = hsv_ret[i]

\* get() was called before the last next() and again after it.
C10_Witness ==
    \E i \in Palettes :
        /\ calls[i] >= 2
        /\ step[i].peek # NoCall
        /\ step[i].peek = hsv_ret[i]
        /\ peek[i] # NoCall
====
